---- MODULE Spec2Model ----
(***************************************************************************)
(* Model of the browser-side code of the landing-page site:                *)
(*   - the Universal Component Loader (assets/js and public/js versions),  *)
(*   - the gallery loader listening to componentsReady,                    *)
(*   - the auto-scroll carousel attached by the gallery loader,            *)
(*   - the placeholder-based gallery loader of assets/js,                  *)
(*   - the gallery animation of assets/js/main.js.                         *)
(*                                                                         *)
(* Strings are sequences of tokens.  The literal "use:" is one token, " "  *)
(* is the whitespace token, every other token is a non-whitespace run.     *)
(***************************************************************************)
EXTENDS Integers, Sequences, FiniteSets, TLC

VARIABLES
    loader,        \* "assets" | "public": which component_loader.js the page includes
    page,          \* the children of <body> as parsed from the page (never changes)
    body,          \* the nodes now standing where the page's body content stands
    bodyAttached,  \* document.body is the page's <body> element (FALSE: it was replaced)
    opacity,       \* style.opacity of the page's <body> element: "" | "0" | "1"
    pc,            \* parseAndLoadComponents: "init" | "fetching" | "done"
    cache,         \* moduleCache, and Pending for a fetch in flight
    timer,         \* failsafeTimer: "none" | "armed" | "fired" | "cleared"
    raf,           \* the reveal requestAnimationFrame: "none" | "scheduled" | "ran" | "threw"
    readyEvents,   \* number of componentsReady events dispatched by the loader
    critical,      \* the catch block of parseAndLoadComponents ran
    escaped,       \* an exception left parseAndLoadComponents (its promise rejected)
    log,           \* what each processed command was given (one record per command)
    requests,      \* how many fetches were started for each module name
    \* gallery loader (componentsReady listener)
    galleryScript, \* "autoscroll" (public/js/gallery_loader.js) | "animated" (earlier version)
    hasTrack,      \* #gallery-container holds a .gallery-track
    hasTemplate,   \* the document holds #gallery-card-template
    galleryItems,  \* data.items.length of modules/gallery.json
    gInitialized,  \* the container has the class gallery-initialized
    gPending,      \* listener invocations awaiting their fetch of gallery.json
    cards,         \* children of the track
    hydrations,    \* how many times the cards were rendered into the track
    listenerSets,  \* how many times initAutoScrollGallery attached its listeners
    looped,        \* track.dataset.looped
    gErrors,       \* console.error calls of the gallery listener
    gOutcome,      \* how the resources of the listener that resumed last had loaded
    gEscaped,      \* an exception left a gallery listener
    placeholders,  \* elements whose text is use:Gallery_CardCarousel (assets/js gallery loader)
    aPc,           \* DOMContentLoaded listener of assets/js/gallery_loader.js:
                   \* "idle" | "awaiting" | "done"
    \* auto-scroll closure of the most recent initAutoScrollGallery call
    isPaused,
    isPointerDown,
    rafId,         \* 0 is null
    rafPending,    \* animation frames requested and not yet run or cancelled
    resumeTimer,   \* 0 is null
    timersPending, \* timeouts set and not yet fired or cleared
    scrollLeft,    \* track.scrollLeft, in steps of `speed`
    startScrollLeft,
    ticked,        \* the handler that ran last advanced scrollLeft in tick()
    \* gallery animation of assets/js/main.js
    hovering,      \* the pointer is over .gallery__viewport
    focusInside,   \* the focused element is inside .gallery__viewport
    mainRafId,     \* rafId of main.js; 0 is null
    mainFrames,    \* animation frames requested by main.js and not yet run or cancelled
    offsetX,       \* translateX of .gallery__mover, in pixels
    step,          \* pixels per frame
    reducedMotion  \* (prefers-reduced-motion: reduce) matches

loaderVars == <<loader, page, body, bodyAttached, opacity, pc, cache, timer, raf,
                readyEvents, critical, escaped, log>>

galleryVars == <<galleryScript, hasTrack, hasTemplate, galleryItems, gInitialized,
                 gPending, cards, hydrations, listenerSets, looped, gErrors>>

scrollVars == <<isPaused, isPointerDown, rafId, rafPending, resumeTimer, timersPending,
                scrollLeft, startScrollLeft, ticked>>

mainVars == <<hovering, focusInside, mainRafId, mainFrames, offsetX, step, reducedMotion>>

resourceVars == <<gOutcome, gEscaped, placeholders, aPc>>

vars == <<loaderVars, galleryVars, scrollVars, mainVars, requests, resourceVars>>

-----------------------------------------------------------------------------
(* Bounds *)

MaxLen == 2          \* longest text node of a page of InitLoader, in tokens
MaxTextLen == 5      \* longest text node of a page of InitText, in tokens
MaxNodes == 2        \* most children of <body> in a page of InitLoader
MaxContentLen == 2   \* longest module file, in tokens
MaxNames == 2        \* most distinct component names on a page of InitLoader
MaxItems == 5        \* most items of gallery.json
MaxEvents == 3       \* most componentsReady events
MaxHandles == 4      \* animation-frame and timeout handles in use at once
HalfWidth == 3       \* track.scrollWidth / 2, in steps of `speed`
ClientWidth == 1     \* track.clientWidth, in steps of `speed`
SeedWidth == 6       \* seed.scrollWidth of main.js, in pixels
MaxStep == 2         \* largest calcStep() of main.js, in pixels
MaxPlaceholders == 2 \* most gallery placeholders on a page

Drags == {-1, 0, 1}  \* pointer and wheel movements, in steps of `speed`

-----------------------------------------------------------------------------
(* Strings *)

UseTok == "use:"
Space == " "
TitleTok == "{{TITLE}}"

RECURSIVE SeqsUpTo(_, _)
SeqsUpTo(S, n) ==
    IF n = 0 THEN {<<>>}
    ELSE LET shorter == SeqsUpTo(S, n - 1)
         IN  shorter \cup {Append(s, c) : s \in {t \in shorter : Len(t) = n - 1}, c \in S}

\* String.prototype.includes('use:')
includesUse(text) == \E i \in 1..Len(text) : text[i] = UseTok

\* [^\s]+ from position i: the last position of the run of non-whitespace
RECURSIVE NameEnd(_, _)
NameEnd(text, i) ==
    IF i < Len(text) /\ text[i + 1] # Space THEN NameEnd(text, i + 1) ELSE i

\* text.matchAll(/use:([^\s]+)/g), scanning from position `from` (1-based).
\* index: position of "use:"; end: last position of the match; name: match[1]
RECURSIVE matchAllFrom(_, _)
matchAllFrom(text, from) ==
    IF from > Len(text) THEN <<>>
    ELSE IF text[from] = UseTok /\ from < Len(text) /\ text[from + 1] # Space
         THEN LET e == NameEnd(text, from + 1)
              IN  <<[index |-> from, end |-> e, name |-> SubSeq(text, from + 1, e)]>>
                      \o matchAllFrom(text, e + 1)
         ELSE matchAllFrom(text, from + 1)

matchAll(text) == matchAllFrom(text, 1)

\* String.prototype.trim()
RECURSIVE TrimLeft(_)
TrimLeft(text) ==
    IF text # <<>> /\ Head(text) = Space THEN TrimLeft(Tail(text)) ELSE text

RECURSIVE TrimRight(_)
TrimRight(text) ==
    IF text # <<>> /\ text[Len(text)] = Space
    THEN TrimRight(SubSeq(text, 1, Len(text) - 1)) ELSE text

trim(text) == TrimRight(TrimLeft(text))

\* text.trim().match(/^use:[^\s]+$/)
isPureCommand(text) ==
    LET t == trim(text)
    IN  /\ Len(t) >= 2
        /\ t[1] = UseTok
        /\ \A i \in 2..Len(t) : t[i] # Space

\* The replacement string of String.prototype.replace: "$&" stands for the match
RECURSIVE expandReplacement(_, _)
expandReplacement(val, matched) ==
    IF val = <<>> THEN <<>>
    ELSE (IF Head(val) = "$&" THEN <<matched>> ELSE <<Head(val)>>)
             \o expandReplacement(Tail(val), matched)

\* htmlContent.replace(new RegExp(`{{TITLE}}`, 'g'), val)
RECURSIVE replaceTitle(_, _)
replaceTitle(content, val) ==
    IF content = <<>> THEN <<>>
    ELSE (IF Head(content) = TitleTok THEN expandReplacement(val, TitleTok)
                                   ELSE <<Head(content)>>)
             \o replaceTitle(Tail(content), val)

\* The HTML parser lower-cases attribute names: attr.name of `use:Name`
LowerChar(c) == IF c = "A" THEN "a" ELSE c

attrName(written) == [i \in 1..Len(written) |-> LowerChar(written[i])]

-----------------------------------------------------------------------------
(* DOM nodes and HTML strings *)

Absent == <<"(absent)">>

TextNode(v, o) ==
    [kind |-> "text", value |-> v, origin |-> o, use |-> Absent, data |-> Absent,
     kids |-> <<>>]

\* <div use:U data-title="D">kids</div>; U and D may be Absent
Element(u, d, ks) ==
    [kind |-> "elem", value |-> <<>>, origin |-> "page", use |-> u, data |-> d,
     kids |-> ks]

\* <div id="gallery-container"> with its .gallery-track and #gallery-card-template
GalleryContainer ==
    [kind |-> "gallery", value |-> <<>>, origin |-> "page", use |-> Absent,
     data |-> Absent, kids |-> <<>>]

\* An HTML string: plain text (tag ""), or the error placeholder <div style=...>text</div>
Html(tag, text) == [tag |-> tag, text |-> text]

Null == Html("null", <<>>)          \* moduleCache[name] = null, or undefined
Pending == Html("pending", <<>>)    \* the fetch of the module has not settled

\* if (htmlContent): null, undefined and the empty string are falsy
truthy(h) == h.tag = "div" \/ (h.tag = "" /\ h.text # <<>>)

\* A lookup that falls back on any module that loaded
lookupLoaded(c, name) ==
    IF name \in DOMAIN c /\ truthy(c[name]) THEN c[name]
    ELSE IF \E n \in DOMAIN c : truthy(c[n])
         THEN c[CHOOSE n \in DOMAIN c : truthy(c[n])]
         ELSE Null

lookup(c, name) == IF name \in DOMAIN c THEN c[name] ELSE Null

\* temp.innerHTML = htmlContent; the child nodes, each cloned by
\* createNodeWithExecutableScripts (a deep copy)
parseHTML(h) ==
    IF h.tag = "div"
    THEN <<[kind |-> "elem", value |-> <<>>, origin |-> "module", use |-> Absent,
            data |-> Absent, kids |-> <<TextNode(h.text, "module")>>]>>
    ELSE IF h.text = <<>> THEN <<>> ELSE <<TextNode(h.text, "module")>>

\* Text nodes of a node sequence, the nodes' own text children included
RECURSIVE textNodesOf(_)
textNodesOf(ns) ==
    IF ns = <<>> THEN <<>>
    ELSE LET n == Head(ns)
         IN  (IF n.kind = "text" THEN <<n>> ELSE textNodesOf(n.kids))
                 \o textNodesOf(Tail(ns))

\* The moduleCache entry of a settled fetch (assets loader, lines 60-70)
assetsResult(name, outcome) ==
    IF outcome.kind = "ok" THEN Html("", outcome.text) ELSE Null

\* The moduleCache entry of a settled fetch (public loader, lines 81-92)
publicResult(name, outcome) ==
    CASE outcome.kind = "ok" -> Html("", outcome.text)
      [] outcome.kind = "notok" -> Html("div", <<"[Missing component: ">> \o name \o <<"]">>)
      [] OTHER -> Html("div", <<"[Error loading: ">> \o name \o <<"]">>)

\* Placeholders from the data- attributes (public loader, lines 116-122, 150-156)
resolvePlaceholders(h, data) ==
    IF data = Absent THEN h ELSE Html(h.tag, replaceTitle(h.text, data))

\* entry.attrName.split(':')[1] for the attribute written use:<written>
elementName(written) == attrName(written)

-----------------------------------------------------------------------------
(* Expansion of one text node (assets lines 77-124, public lines 96-132) *)

TextPart(v) == [cmd |-> FALSE, name |-> <<>>, nodes |-> <<TextNode(v, "page")>>]

\* The loop over text.matchAll(USE_REGEX) and the trailing text: one part per
\* appended piece of surrounding text and one per command.  lastIndex counts
\* the tokens already consumed; data is the parent's data-title or Absent.
RECURSIVE expandMatches(_, _, _, _, _, _)
expandMatches(text, ms, lastIndex, c, data, ldr) ==
    IF ms = <<>>
    THEN IF lastIndex < Len(text)
         THEN <<TextPart(SubSeq(text, lastIndex + 1, Len(text)))>>
         ELSE <<>>
    ELSE LET m == Head(ms)
             pre == IF m.index - 1 > lastIndex
                    THEN <<TextPart(SubSeq(text, lastIndex + 1, m.index - 1))>>
                    ELSE <<>>
             h0 == lookup(c, m.name)
             h == IF ldr = "public" /\ truthy(h0) THEN resolvePlaceholders(h0, data)
                                                  ELSE h0
             ins == IF truthy(h) THEN parseHTML(h) ELSE <<>>
         IN  pre \o <<[cmd |-> TRUE, name |-> m.name, nodes |-> ins]>>
                 \o expandMatches(text, Tail(ms), m.end, c, data, ldr)

RECURSIVE fragmentOf(_)
fragmentOf(parts) ==
    IF parts = <<>> THEN <<>> ELSE Head(parts).nodes \o fragmentOf(Tail(parts))

\* lastIndex starting at the end of the text: the text before the first command is lost
expandTextFromEnd(text, c, data, ldr) ==
    expandMatches(text, matchAll(text), Len(text), c, data, ldr)

expandText(text, c, data, ldr) == expandMatches(text, matchAll(text), 0, c, data, ldr)

-----------------------------------------------------------------------------
(* Collection of the commands (assets lines 22-37, public lines 31-57) *)

\* The child is, or wraps, a text node with nodeValue.includes('use:')
hasCollectedText(n) ==
    \/ n.kind = "text" /\ includesUse(n.value)
    \/ n.kind = "elem" /\ Len(n.kids) = 1 /\ includesUse(n.kids[1].value)

collectedText(n) == IF n.kind = "text" THEN n.value ELSE n.kids[1].value

\* The element has an attribute whose name starts with use:
hasUseAttr(n) == n.kind = "elem" /\ n.use # Absent

\* Position of child i's text node among textNodes, of child i among elements
textRank(b, i) == Cardinality({j \in 1..i : hasCollectedText(b[j])})
elemRank(b, i) == Cardinality({j \in 1..i : hasUseAttr(b[j])})

nTextNodes(b) == textRank(b, Len(b))
nElements(b, ldr) == IF ldr = "public" THEN elemRank(b, Len(b)) ELSE 0

\* componentNames (assets lines 47-52, public lines 66-74)
componentNames(b, ldr) ==
    LET fromText == UNION {{m.name : m \in {matchAll(collectedText(b[i]))[k] :
                                            k \in 1..Len(matchAll(collectedText(b[i])))}} :
                           i \in {j \in 1..Len(b) : hasCollectedText(b[j])}}
        fromElem == {elementName(b[i].use) : i \in {j \in 1..Len(b) : hasUseAttr(b[j])}}
                        \ {<<>>}
    IN  fromText \cup (IF ldr = "public" THEN fromElem ELSE {})

-----------------------------------------------------------------------------
(* Expansion of the page (assets lines 77-151, public lines 96-163) *)

TextLog(i, text, data, parts, how) ==
    [kind |-> "text", child |-> i, name |-> <<>>, text |-> text, data |-> data,
     parts |-> parts, fragment |-> fragmentOf(parts), shown |-> how]

ElemLog(i, name, data, frag, how) ==
    [kind |-> "elem", child |-> i, name |-> name, text |-> <<>>, data |-> data,
     parts |-> <<>>, fragment |-> frag, shown |-> how]

\* What the expansion leaves where child i of <body> stood, when the first
\* `upto` steps of the two loops ran (the text nodes in document order, then
\* the element commands in document order).
\*   nodes: the nodes standing in child i's place
\*   bodyReplaced: <body> itself was replaced (it was the text node's parent)
\*   log: what each processed command was given
expandChild(b, i, c, ldr, upto) ==
    LET n == b[i]
        tdone == hasCollectedText(n) /\ textRank(b, i) <= upto
        text == collectedText(n)
        matched == tdone /\ matchAll(text) # <<>>
        parent == IF n.kind = "text" THEN Absent ELSE n.data
        parts == expandText(text, c, parent, ldr)
        frag == fragmentOf(parts)
        \* isOnlyChild && text.trim().match(/^use:[^\s]+$/): parent.replaceWith
        only == IF n.kind = "text" THEN Len(b) = 1 ELSE TRUE
        unwrap == matched /\ only /\ isPureCommand(text)
        tlog == IF matched
                THEN <<TextLog(i, text, parent, parts, IF unwrap THEN "parent" ELSE "node")>>
                ELSE <<>>
        afterText == IF ~matched THEN <<n>>
                     ELSE IF unwrap \/ n.kind = "text" THEN frag
                     ELSE <<[n EXCEPT !.kids = frag]>>
        \* element command of child i (public only)
        edone == /\ ldr = "public"
                 /\ hasUseAttr(n)
                 /\ nTextNodes(b) + elemRank(b, i) <= upto
        name == elementName(n.use)
        h0 == lookup(c, name)
        efrag == parseHTML(resolvePlaceholders(h0, n.data))
        eapplies == edone /\ truthy(h0)
        \* replaceWith on an element that left the document changes nothing
        attached == ~unwrap
        elog == IF eapplies
                THEN <<ElemLog(i, name, n.data, efrag,
                               IF attached THEN "node" ELSE "detached")>>
                ELSE <<>>
    IN  [nodes |-> IF eapplies /\ attached THEN efrag ELSE afterText,
         bodyReplaced |-> unwrap /\ n.kind = "text",
         log |-> tlog \o elog]

RECURSIVE expandFrom(_, _, _, _, _)
expandFrom(b, i, c, ldr, upto) ==
    IF i > Len(b) THEN [nodes |-> <<>>, bodyReplaced |-> FALSE, log |-> <<>>]
    ELSE LET here == expandChild(b, i, c, ldr, upto)
             rest == expandFrom(b, i + 1, c, ldr, upto)
         IN  [nodes |-> here.nodes \o rest.nodes,
              bodyReplaced |-> here.bodyReplaced \/ rest.bodyReplaced,
              log |-> here.log \o rest.log]

expandPage(b, c, ldr, upto) == expandFrom(b, 1, c, ldr, upto)

nSteps(b, ldr) == nTextNodes(b) + nElements(b, ldr)

-----------------------------------------------------------------------------
(* initAutoScrollGallery (public/js/gallery_loader.js lines 85-191) *)

ScrollState ==
    [isPaused |-> isPaused, isPointerDown |-> isPointerDown, rafId |-> rafId,
     rafPending |-> rafPending, resumeTimer |-> resumeTimer,
     timersPending |-> timersPending, scrollLeft |-> scrollLeft,
     startScrollLeft |-> startScrollLeft, ticked |-> FALSE]

SetScroll(s) ==
    /\ isPaused' = s.isPaused
    /\ isPointerDown' = s.isPointerDown
    /\ rafId' = s.rafId
    /\ rafPending' = s.rafPending
    /\ resumeTimer' = s.resumeTimer
    /\ timersPending' = s.timersPending
    /\ scrollLeft' = s.scrollLeft
    /\ startScrollLeft' = s.startScrollLeft
    /\ ticked' = s.ticked

\* The handle requestAnimationFrame or setTimeout returns: one not in use
freshHandle(pending, current) ==
    CHOOSE i \in 1..MaxHandles :
        /\ i \notin pending \cup {current}
        /\ \A j \in 1..(i - 1) : j \in pending \cup {current}

handlesFree ==
    /\ Cardinality(rafPending) + 2 <= MaxHandles
    /\ Cardinality(timersPending) + 2 <= MaxHandles

\* The browser keeps scrollLeft within the scrollable range
clampScroll(x) ==
    LET most == 2 * HalfWidth - ClientWidth
    IN  IF x < 0 THEN 0 ELSE IF x > most THEN most ELSE x

\* Lines 102-108
stopAutoScroll(s) ==
    [s EXCEPT !.isPaused = TRUE,
              !.rafPending = IF s.rafId # 0 THEN @ \ {s.rafId} ELSE @,
              !.rafId = 0,
              !.timersPending = IF s.resumeTimer # 0 THEN @ \ {s.resumeTimer} ELSE @,
              !.resumeTimer = 0]

\* A loop without pause support: it scrolls and asks for the next frame
tickNaive(s) ==
    LET id == freshHandle(s.rafPending, s.rafId)
    IN  [s EXCEPT !.scrollLeft = clampScroll(@ + 1),
                  !.ticked = TRUE,
                  !.rafPending = @ \cup {id}]

\* Lines 125-137
tick(s) ==
    IF s.isPaused \/ s.isPointerDown THEN s
    ELSE LET half == HalfWidth
             wrapped == IF s.scrollLeft >= half THEN s.scrollLeft - half
                        ELSE IF s.scrollLeft <= 0 THEN s.scrollLeft + half
                        ELSE s.scrollLeft
             id == freshHandle(s.rafPending, s.rafId)
         IN  [s EXCEPT !.scrollLeft = clampScroll(wrapped + 1),
                       !.ticked = TRUE,
                       !.rafId = id,
                       !.rafPending = @ \cup {id}]

\* Lines 110-114
startAutoScroll(s) == tick([stopAutoScroll(s) EXCEPT !.isPaused = FALSE])

\* Lines 116-123: the timeout is set; its callback is ResumeTimerFire
resumeAutoScroll(s) ==
    LET cleared == IF s.resumeTimer # 0 THEN s.timersPending \ {s.resumeTimer}
                                        ELSE s.timersPending
        id == freshHandle(cleared, s.resumeTimer)
    IN  [s EXCEPT !.resumeTimer = id, !.timersPending = cleared \cup {id}]

\* Lines 140-143
onInteraction(s) == resumeAutoScroll(stopAutoScroll(s))

\* The closure right after initAutoScrollGallery ran (line 190: startAutoScroll)
newClosure(s) ==
    startAutoScroll([s EXCEPT !.isPaused = FALSE, !.isPointerDown = FALSE,
                              !.rafId = 0, !.resumeTimer = 0,
                              !.startScrollLeft = 0])

listening == listenerSets > 0 /\ handlesFree

\* Line 146
TouchStart ==
    /\ listening
    /\ SetScroll(onInteraction([ScrollState EXCEPT !.isPointerDown = TRUE]))
    /\ UNCHANGED <<loaderVars, galleryVars, mainVars, requests, resourceVars>>

\* Lines 147-148: touchend and touchcancel
TouchEnd ==
    /\ listening
    /\ SetScroll(onInteraction([ScrollState EXCEPT !.isPointerDown = FALSE]))
    /\ UNCHANGED <<loaderVars, galleryVars, mainVars, requests, resourceVars>>

\* Line 149; the wheel also scrolls the track by d
Wheel ==
    /\ listening
    /\ \E d \in Drags :
          SetScroll(onInteraction([ScrollState EXCEPT !.scrollLeft = clampScroll(@ + d)]))
    /\ UNCHANGED <<loaderVars, galleryVars, mainVars, requests, resourceVars>>

\* Lines 153-157
ScrollEvent ==
    /\ listening
    /\ SetScroll(IF isPaused \/ isPointerDown THEN onInteraction(ScrollState)
                                                ELSE ScrollState)
    /\ UNCHANGED <<loaderVars, galleryVars, mainVars, requests, resourceVars>>

\* Lines 163-170
PointerDown ==
    /\ listening
    /\ SetScroll(onInteraction([ScrollState EXCEPT !.isPointerDown = TRUE,
                                                   !.startScrollLeft = scrollLeft]))
    /\ UNCHANGED <<loaderVars, galleryVars, mainVars, requests, resourceVars>>

\* Lines 172-177: dx = e.clientX - startX
PointerMove ==
    /\ listening
    /\ \E dx \in Drags :
          SetScroll(IF ~isPointerDown THEN ScrollState
                    ELSE [onInteraction(ScrollState) EXCEPT
                              !.scrollLeft = clampScroll(startScrollLeft - dx)])
    /\ UNCHANGED <<loaderVars, galleryVars, mainVars, requests, resourceVars>>

\* Lines 179-187: pointerup, pointercancel and pointerleave
PointerUp ==
    /\ listening
    /\ SetScroll(IF ~isPointerDown THEN ScrollState
                 ELSE onInteraction([ScrollState EXCEPT !.isPointerDown = FALSE]))
    /\ UNCHANGED <<loaderVars, galleryVars, mainVars, requests, resourceVars>>

\* The browser runs a requested animation frame: tick (line 136)
AnimationFrame ==
    /\ listening
    /\ \E id \in rafPending :
          SetScroll(tick([ScrollState EXCEPT !.rafPending = @ \ {id}]))
    /\ UNCHANGED <<loaderVars, galleryVars, mainVars, requests, resourceVars>>

\* The resume timeout fires (lines 118-122)
ResumeTimerFire ==
    /\ listening
    /\ \E id \in timersPending :
          LET s == [ScrollState EXCEPT !.timersPending = @ \ {id}]
          IN  SetScroll(IF ~isPointerDown THEN startAutoScroll(s) ELSE s)
    /\ UNCHANGED <<loaderVars, galleryVars, mainVars, requests, resourceVars>>

NextScroll ==
    \/ TouchStart
    \/ TouchEnd
    \/ Wheel
    \/ ScrollEvent
    \/ PointerDown
    \/ PointerMove
    \/ PointerUp
    \/ AnimationFrame
    \/ ResumeTimerFire

-----------------------------------------------------------------------------
(* The componentsReady listener of the gallery loader *)

\* Lines 19-35 (public/js/gallery_loader.js): up to the await of fetch
galleryListener(containerPresent) ==
    gPending' = IF containerPresent /\ ~gInitialized THEN gPending + 1 ELSE gPending

\* renderItems: the items twice, four times when there are fewer than 5
renderCount(n) == IF n < 5 THEN 4 * n ELSE 2 * n

\* How loading gallery.json ends: a response that is ok and parses, a
\* response that is not ok, a rejected fetch, a rejected response.json()
JsonOutcomes == {"ok", "notok", "reject", "badjson"}

\* The structure alone decides
hydratesUnchecked(outcome) == hasTrack /\ hasTemplate

\* The listener gets past lines 37-54: the data loaded and the structure is there
hydrates(outcome) == outcome = "ok" /\ hasTrack /\ hasTemplate

\* The fetch of gallery.json settles for one waiting invocation; the rest of
\* the listener runs (lines 37-203)
GallerySettle ==
    /\ gPending > 0
    /\ gPending' = gPending - 1
    /\ \E outcome \in JsonOutcomes :
       /\ gOutcome' = outcome
       /\ IF hydrates(outcome)
          THEN /\ hydrations' = hydrations + 1
               /\ gErrors' = gErrors
               /\ gInitialized' = TRUE
               /\ IF galleryScript = "autoscroll"
                  THEN /\ handlesFree
                       /\ cards' = IF looped THEN cards + renderCount(galleryItems)
                                             ELSE 2 * (cards + renderCount(galleryItems))
                       /\ looped' = TRUE
                       /\ listenerSets' = listenerSets + 1
                       /\ SetScroll(newClosure(ScrollState))
                  ELSE /\ cards' = cards + renderCount(galleryItems)
                       /\ UNCHANGED <<looped, listenerSets, scrollVars>>
          ELSE /\ gErrors' = gErrors + 1
               /\ UNCHANGED <<hydrations, gInitialized, cards, looped, listenerSets,
                              scrollVars>>
    /\ UNCHANGED <<loaderVars, galleryScript, hasTrack, hasTemplate, galleryItems>>
    /\ UNCHANGED <<mainVars, requests, gEscaped, placeholders, aPc>>

containerIn(b, attached) == attached /\ \E i \in 1..Len(b) : b[i].kind = "gallery"

\* A componentsReady event dispatched on the document by other code
EnvDispatch ==
    /\ readyEvents < MaxEvents
    /\ readyEvents' = readyEvents + 1
    /\ galleryListener(containerIn(body, bodyAttached))
    /\ UNCHANGED <<loader, page, body, bodyAttached, opacity, pc, cache, timer, raf,
                   critical, escaped, log>>
    /\ UNCHANGED <<galleryScript, hasTrack, hasTemplate, galleryItems, gInitialized,
                   cards, hydrations, listenerSets, looped, gErrors, scrollVars>>
    /\ UNCHANGED <<mainVars, requests, resourceVars>>

-----------------------------------------------------------------------------
(* Inputs *)

TextChars == {UseTok, "A", Space}
ContentChars == {UseTok, TitleTok}

\* Text nodes of a page: every text with a "use:" in it, and one text without
PageTexts(n) == {t \in SeqsUpTo(TextChars, n) : includesUse(t)} \cup {<<"A">>}

ModuleContents == SeqsUpTo(ContentChars, MaxContentLen)

\* data-title values: a plain one, and one holding the special pattern $&
DataValues == {<<"V">>, <<"$&">>}

\* Component names as written in a use: attribute
WrittenNames == {<<"A">>}

PageElements(n, dvals) ==
    {Element(u, d, ks) : u \in {Absent} \cup WrittenNames,
                         d \in {Absent} \cup dvals,
                         ks \in {<<>>} \cup {<<TextNode(t, "page")>> : t \in PageTexts(n)}}

PageNodes(n) ==
    {TextNode(t, "page") : t \in PageTexts(n)} \cup PageElements(n, {<<"V">>}) \cup {GalleryContainer}

\* The parser merges adjacent text: no two text nodes stand side by side
Pages(n, k) ==
    {b \in SeqsUpTo(PageNodes(n), k) :
        /\ b # <<>>
        /\ \A i \in 1..(Len(b) - 1) : ~(b[i].kind = "text" /\ b[i + 1].kind = "text")
        /\ Cardinality({i \in 1..Len(b) : b[i].kind = "gallery"}) <= 1}

\* How a fetch settles: response.ok with the file's text, a response that is
\* not ok, or a rejection
Outcomes ==
    {[kind |-> "ok", text |-> t] : t \in ModuleContents}
        \cup {[kind |-> "notok", text |-> <<>>], [kind |-> "reject", text |-> <<>>]}

-----------------------------------------------------------------------------
(* parseAndLoadComponents *)

\* No gallery listener has resumed; the page holds no gallery placeholder
NoResources ==
    /\ gOutcome = "none"
    /\ gEscaped = FALSE
    /\ placeholders = 0
    /\ aPc = "idle"

\* The page has no .gallery element: main.js attaches nothing (line 6)
NoMain ==
    /\ hovering = FALSE
    /\ focusInside = FALSE
    /\ mainRafId = 0
    /\ mainFrames = {}
    /\ offsetX = 0
    /\ step = 1
    /\ reducedMotion = FALSE

\* No gallery was hydrated and no auto-scroll closure exists
InitGallery ==
    /\ gInitialized = FALSE
    /\ gPending = 0
    /\ cards = 0
    /\ hydrations = 0
    /\ listenerSets = 0
    /\ looped = FALSE
    /\ gErrors = 0
    /\ isPaused = FALSE
    /\ isPointerDown = FALSE
    /\ rafId = 0
    /\ rafPending = {}
    /\ resumeTimer = 0
    /\ timersPending = {}
    /\ scrollLeft = 0
    /\ startScrollLeft = 0
    /\ ticked = FALSE

InitPage(pages) ==
    /\ loader \in {"assets", "public"}
    /\ page \in pages
    /\ galleryScript = "autoscroll"
    /\ hasTrack = TRUE
    /\ hasTemplate = TRUE
    /\ galleryItems \in IF containerIn(page, TRUE) THEN 1..MaxItems ELSE {1}
    /\ InitGallery
    /\ body = page
    /\ bodyAttached = TRUE
    /\ opacity = ""
    /\ pc = "init"
    /\ cache = <<>>
    /\ timer = "none"
    /\ raf = "none"
    /\ readyEvents = 0
    /\ critical = FALSE
    /\ escaped = FALSE
    /\ log = <<>>
    /\ requests = <<>>
    /\ NoResources
    /\ NoMain

\* One fetch for each command that names the module
requestsPerCommand(b, ldr) ==
    [name \in componentNames(b, ldr) |->
        Cardinality({ik \in (1..Len(b)) \X (1..MaxTextLen) :
                        /\ hasCollectedText(b[ik[1]])
                        /\ ik[2] <= Len(matchAll(collectedText(b[ik[1]])))
                        /\ matchAll(collectedText(b[ik[1]]))[ik[2]].name = name})
          + Cardinality({i \in 1..Len(b) : /\ ldr = "public"
                                            /\ hasUseAttr(b[i])
                                            /\ elementName(b[i].use) = name})]

\* [...componentNames].map(async (name) => ... fetch ...): one fetch for each
\* member of the Set (assets lines 55-59, public lines 78-81)
requestsFor(b, ldr) == [name \in componentNames(b, ldr) |-> 1]

noCommands(b, ldr) == nTextNodes(b) = 0 /\ nElements(b, ldr) = 0

\* Lines 13-44 (assets), 13-63 (public): nothing to do, the finally block runs
StartNoWork ==
    /\ pc = "init"
    /\ noCommands(body, loader)
    /\ pc' = "done"
    /\ IF loader = "public"
       THEN /\ timer' = "cleared"
            /\ opacity' = "1"
            /\ raf' = raf
       ELSE /\ timer' = timer
            /\ opacity' = "0"
            /\ raf' = "scheduled"
    /\ UNCHANGED <<loader, page, body, bodyAttached, cache, readyEvents, critical,
                   escaped, log>>
    /\ UNCHANGED <<galleryVars, scrollVars, mainVars, requests, resourceVars>>

\* Lines 13-56 (assets), 13-78 (public): the fetches start, the function awaits
StartFetch ==
    /\ pc = "init"
    /\ ~noCommands(body, loader)
    /\ pc' = "fetching"
    /\ opacity' = "0"
    /\ timer' = IF loader = "public" THEN "armed" ELSE timer
    /\ cache' = [name \in componentNames(body, loader) |-> Pending]
    /\ requests' = requestsFor(body, loader)
    /\ UNCHANGED <<loader, page, body, bodyAttached, raf, readyEvents, critical,
                   escaped, log>>
    /\ UNCHANGED <<galleryVars, scrollVars, mainVars, resourceVars>>

fetchResult(ldr, name, outcome) ==
    IF ldr = "public" THEN publicResult(name, outcome) ELSE assetsResult(name, outcome)

\* One fetch of the Promise.all settles
FetchSettle ==
    /\ pc = "fetching"
    /\ \E name \in DOMAIN cache, outcome \in Outcomes :
          /\ cache[name] = Pending
          /\ cache' = [cache EXCEPT ![name] = fetchResult(loader, name, outcome)]
    /\ UNCHANGED <<loader, page, body, bodyAttached, opacity, pc, timer, raf,
                   readyEvents, critical, escaped, log>>
    /\ UNCHANGED <<galleryVars, scrollVars, mainVars, requests, resourceVars>>

\* The finally block (assets lines 158-163, public lines 168-171)
Finally(attached) ==
    IF loader = "public"
    THEN /\ timer' = IF timer = "armed" THEN "cleared" ELSE timer
         /\ opacity' = IF attached THEN "1" ELSE opacity
         /\ escaped' = ~attached
         /\ raf' = raf
    ELSE /\ timer' = timer
         /\ opacity' = opacity
         /\ escaped' = escaped
         /\ raf' = "scheduled"

\* Promise.all resolved: the expansion loops, the event, catch and finally.
\* upto < nSteps: an exception is thrown in step upto + 1 and caught.
Resume ==
    /\ pc = "fetching"
    /\ \A name \in DOMAIN cache : cache[name] # Pending
    /\ \E upto \in 0..nSteps(body, loader) :
          LET r == expandPage(body, cache, loader, upto)
              completed == upto = nSteps(body, loader)
          IN  /\ body' = r.nodes
              /\ bodyAttached' = ~r.bodyReplaced
              /\ log' = r.log
              /\ critical' = ~completed
              /\ readyEvents' = IF completed /\ loader = "public"
                                THEN readyEvents + 1 ELSE readyEvents
              \* dispatchEvent runs the gallery listener up to its await
              /\ IF completed /\ loader = "public"
                 THEN galleryListener(containerIn(r.nodes, ~r.bodyReplaced))
                 ELSE gPending' = gPending
              /\ Finally(~r.bodyReplaced)
    /\ pc' = "done"
    /\ UNCHANGED <<loader, page, cache>>
    /\ UNCHANGED <<galleryScript, hasTrack, hasTemplate, galleryItems, gInitialized,
                   cards, hydrations, listenerSets, looped, gErrors, scrollVars>>
    /\ UNCHANGED <<mainVars, requests, resourceVars>>

\* The failsafe timer's callback (public lines 15-18)
FailsafeFire ==
    /\ timer = "armed"
    /\ pc = "fetching"
    /\ timer' = "fired"
    /\ opacity' = "1"
    /\ UNCHANGED <<loader, page, body, bodyAttached, pc, cache, raf, readyEvents,
                   critical, escaped, log>>
    /\ UNCHANGED <<galleryVars, scrollVars, mainVars, requests, resourceVars>>

\* The requestAnimationFrame callback of the finally block (assets lines 160-162)
RevealFrame ==
    /\ raf = "scheduled"
    /\ IF bodyAttached
       THEN opacity' = "1" /\ raf' = "ran"
       ELSE opacity' = opacity /\ raf' = "threw"
    /\ UNCHANGED <<loader, page, body, bodyAttached, pc, cache, timer, readyEvents,
                   critical, escaped, log>>
    /\ UNCHANGED <<galleryVars, scrollVars, mainVars, requests, resourceVars>>

NextLoader ==
    \/ StartNoWork
    \/ StartFetch
    \/ FetchSettle
    \/ Resume
    \/ FailsafeFire
    \/ RevealFrame
    \/ GallerySettle

InitLoader ==
    InitPage({b \in Pages(MaxLen, MaxNodes) :
                 Cardinality(componentNames(b, "public")) <= MaxNames})

SpecLoader == InitLoader /\ [][NextLoader]_vars

\* A page that is one wrapper element around one long text node
InitText ==
    InitPage({<<Element(Absent, d, <<TextNode(t, "page")>>)>> :
                 d \in {Absent} \cup DataValues,
                 t \in {x \in SeqsUpTo(TextChars, MaxTextLen) : includesUse(x)}})

NextText ==
    \/ StartFetch
    \/ FetchSettle
    \/ Resume
    \/ FailsafeFire
    \/ RevealFrame

SpecText == InitText /\ [][NextText]_vars

-----------------------------------------------------------------------------
(* The gallery loader on a page whose component loader has finished *)

\* The public loader returned from a page without commands (StartNoWork)
LoaderFinished(b, events) ==
    /\ loader = "public"
    /\ page = b
    /\ body = b
    /\ bodyAttached = TRUE
    /\ opacity = "1"
    /\ pc = "done"
    /\ cache = <<>>
    /\ timer = "cleared"
    /\ raf = "none"
    /\ readyEvents = events
    /\ critical = FALSE
    /\ escaped = FALSE
    /\ log = <<>>
    /\ requests = <<>>
    /\ NoResources
    /\ NoMain

InitGalleryPage ==
    /\ \E b \in {<<GalleryContainer>>, <<Element(Absent, Absent, <<>>)>>} :
          LoaderFinished(b, 0)
    /\ galleryScript \in {"autoscroll", "animated"}
    /\ hasTrack \in BOOLEAN
    /\ hasTemplate \in BOOLEAN
    /\ galleryItems \in 1..MaxItems
    /\ InitGallery

NextGallery ==
    \/ EnvDispatch
    \/ GallerySettle

SpecGallery == InitGalleryPage /\ [][NextGallery]_vars

\* The auto-scroll gallery right after its one hydration
InitScroll ==
    /\ LoaderFinished(<<GalleryContainer>>, 1)
    /\ galleryScript = "autoscroll"
    /\ hasTrack = TRUE
    /\ hasTemplate = TRUE
    /\ galleryItems \in 1..MaxItems
    /\ gInitialized = TRUE
    /\ gPending = 0
    /\ cards = 2 * renderCount(galleryItems)
    /\ hydrations = 1
    /\ listenerSets = 1
    /\ looped = TRUE
    /\ gErrors = 0
    /\ LET s == newClosure([isPaused |-> FALSE, isPointerDown |-> FALSE, rafId |-> 0,
                            rafPending |-> {}, resumeTimer |-> 0, timersPending |-> {},
                            scrollLeft |-> 0, startScrollLeft |-> 0, ticked |-> FALSE])
       IN  /\ isPaused = s.isPaused
           /\ isPointerDown = s.isPointerDown
           /\ rafId = s.rafId
           /\ rafPending = s.rafPending
           /\ resumeTimer = s.resumeTimer
           /\ timersPending = s.timersPending
           /\ scrollLeft = s.scrollLeft
           /\ startScrollLeft = s.startScrollLeft
           /\ ticked = s.ticked

SpecScroll == InitScroll /\ [][NextScroll]_vars

-----------------------------------------------------------------------------
(* The DOMContentLoaded listener of assets/js/gallery_loader.js *)

\* How fetch('modules/gallery_cardcarousel.html') ends
HtmlOutcomes == {"ok", "notok", "reject"}

\* Promise.all resolved and both responses are ok and readable (lines 30-40)
resourcesLoaded(html, json) == html = "ok" /\ json = "ok"

\* Lines 17-33: the placeholders are collected; without one the listener
\* returns, otherwise the two fetches start and the listener awaits them
DomContentLoaded ==
    /\ aPc = "idle"
    /\ aPc' = IF placeholders = 0 THEN "done" ELSE "awaiting"
    /\ UNCHANGED <<gOutcome, gEscaped, placeholders>>
    /\ UNCHANGED <<loaderVars, galleryVars, scrollVars, mainVars, requests>>

\* Lines 30-103: the fetches settle and the rest of the listener runs
ResourcesSettle ==
    /\ aPc = "awaiting"
    /\ aPc' = "done"
    /\ gEscaped' = gEscaped
    /\ \E html \in HtmlOutcomes, json \in JsonOutcomes :
          /\ gOutcome' = IF html # "ok" THEN html ELSE json
          /\ IF ~resourcesLoaded(html, json)
             THEN \* throw or rejection, caught at line 101
                  /\ gErrors' = gErrors + 1
                  /\ UNCHANGED <<cards, hydrations, placeholders>>
             ELSE IF ~hasTemplate
             THEN \* lines 51-54, once for each placeholder
                  /\ gErrors' = gErrors + placeholders
                  /\ UNCHANGED <<cards, hydrations, placeholders>>
             ELSE IF ~hasTrack
             THEN \* track is null: TypeError in the first iteration, caught
                  /\ gErrors' = gErrors + 1
                  /\ UNCHANGED <<cards, hydrations, placeholders>>
             ELSE /\ gErrors' = gErrors
                  /\ cards' = cards + placeholders * renderCount(galleryItems)
                  /\ hydrations' = hydrations + placeholders
                  /\ placeholders' = 0
    /\ UNCHANGED <<galleryScript, hasTrack, hasTemplate, galleryItems, gInitialized,
                   gPending, listenerSets, looped>>
    /\ UNCHANGED <<loaderVars, scrollVars, mainVars, requests>>

\* The three gallery loaders, each on its page, before its event
InitResources ==
    /\ galleryScript \in {"autoscroll", "animated", "placeholder"}
    /\ loader = IF galleryScript = "placeholder" THEN "assets" ELSE "public"
    /\ page = IF galleryScript = "placeholder" THEN <<Element(Absent, Absent, <<>>)>>
                                                ELSE <<GalleryContainer>>
    /\ body = page
    /\ bodyAttached = TRUE
    /\ opacity = "1"
    /\ pc = "done"
    /\ cache = <<>>
    /\ timer = IF loader = "public" THEN "cleared" ELSE "none"
    /\ raf = IF loader = "public" THEN "none" ELSE "ran"
    /\ readyEvents = 0
    /\ critical = FALSE
    /\ escaped = FALSE
    /\ log = <<>>
    /\ requests = <<>>
    /\ hasTrack \in BOOLEAN
    /\ hasTemplate \in BOOLEAN
    /\ galleryItems \in 1..MaxItems
    /\ InitGallery
    /\ NoMain
    /\ gOutcome = "none"
    /\ gEscaped = FALSE
    /\ placeholders \in IF galleryScript = "placeholder" THEN 0..MaxPlaceholders ELSE {0}
    /\ aPc = IF galleryScript = "placeholder" THEN "idle" ELSE "done"

NextResources ==
    \/ EnvDispatch
    \/ GallerySettle
    \/ DomContentLoaded
    \/ ResourcesSettle

SpecResources == InitResources /\ [][NextResources]_vars

-----------------------------------------------------------------------------
(* The gallery animation of assets/js/main.js (lines 19-73) *)

AnimState == [rafId |-> mainRafId, frames |-> mainFrames, offsetX |-> offsetX]

SetAnim(s) ==
    /\ mainRafId' = s.rafId
    /\ mainFrames' = s.frames
    /\ offsetX' = s.offsetX

\* rafId = requestAnimationFrame(tick)
requestTick(s) ==
    LET id == freshHandle(s.frames, s.rafId)
    IN  [s EXCEPT !.rafId = id, !.frames = @ \cup {id}]

\* Lines 54-59
stop(s) ==
    IF s.rafId # 0 THEN [s EXCEPT !.frames = @ \ {s.rafId}, !.rafId = 0] ELSE s

\* Lines 48-52
start(s) == IF reducedMotion THEN stop(s) ELSE requestTick(stop(s))

\* Lines 38-46
mainTick(s) ==
    LET moved == s.offsetX - step
        w == SeedWidth
    IN  requestTick([s EXCEPT !.offsetX = IF -moved >= w THEN moved + w ELSE moved])

\* Line 70
MouseEnter ==
    /\ ~hovering
    /\ hovering' = TRUE
    /\ SetAnim(stop(AnimState))
    /\ UNCHANGED <<focusInside, step, reducedMotion>>
    /\ UNCHANGED <<loaderVars, galleryVars, scrollVars, requests, resourceVars>>

\* Line 72
MouseLeave ==
    /\ hovering
    /\ hovering' = FALSE
    /\ SetAnim(start(AnimState))
    /\ UNCHANGED <<focusInside, step, reducedMotion>>
    /\ UNCHANGED <<loaderVars, galleryVars, scrollVars, requests, resourceVars>>

\* Line 71: focus moves to an element inside the viewport
FocusIn ==
    /\ ~focusInside
    /\ focusInside' = TRUE
    /\ SetAnim(stop(AnimState))
    /\ UNCHANGED <<hovering, step, reducedMotion>>
    /\ UNCHANGED <<loaderVars, galleryVars, scrollVars, requests, resourceVars>>

\* Line 73: the focused element inside the viewport loses focus
FocusOut ==
    /\ focusInside
    /\ focusInside' = FALSE
    /\ SetAnim(start(AnimState))
    /\ UNCHANGED <<hovering, step, reducedMotion>>
    /\ UNCHANGED <<loaderVars, galleryVars, scrollVars, requests, resourceVars>>

\* Lines 65-67: step = calcStep() for the new window width
Resize ==
    /\ \E d \in 1..MaxStep : step' = d
    /\ UNCHANGED <<hovering, focusInside, mainRafId, mainFrames, offsetX, reducedMotion>>
    /\ UNCHANGED <<loaderVars, galleryVars, scrollVars, requests, resourceVars>>

\* The browser runs a requested frame: tick
MainFrame ==
    /\ \E id \in mainFrames :
          SetAnim(mainTick([AnimState EXCEPT !.frames = @ \ {id}]))
    /\ UNCHANGED <<hovering, focusInside, step, reducedMotion>>
    /\ UNCHANGED <<loaderVars, galleryVars, scrollVars, requests, resourceVars>>

NextMain ==
    \/ MouseEnter
    \/ MouseLeave
    \/ FocusIn
    \/ FocusOut
    \/ Resize
    \/ MainFrame

\* After the DOMContentLoaded listener of main.js on a page with a .gallery:
\* start() ran (line 62), the pointer and the focus are outside the viewport
InitMain ==
    /\ loader = "assets"
    /\ page = <<Element(Absent, Absent, <<>>)>>
    /\ body = page
    /\ bodyAttached = TRUE
    /\ opacity = "1"
    /\ pc = "done"
    /\ cache = <<>>
    /\ timer = "none"
    /\ raf = "ran"
    /\ readyEvents = 0
    /\ critical = FALSE
    /\ escaped = FALSE
    /\ log = <<>>
    /\ requests = <<>>
    /\ galleryScript = "placeholder"
    /\ hasTrack = TRUE
    /\ hasTemplate = TRUE
    /\ galleryItems = 1
    /\ InitGallery
    /\ NoResources
    /\ hovering = FALSE
    /\ focusInside = FALSE
    /\ reducedMotion \in BOOLEAN
    /\ step \in 1..MaxStep
    /\ LET s == start([rafId |-> 0, frames |-> {}, offsetX |-> 0])
       IN  /\ mainRafId = s.rafId
           /\ mainFrames = s.frames
           /\ offsetX = s.offsetX

SpecMain == InitMain /\ [][NextMain]_vars

-----------------------------------------------------------------------------
(* Properties *)

finished == pc = "done" /\ ~critical

textEntries == {k \in 1..Len(log) : log[k].kind = "text"}
elemEntries == {k \in 1..Len(log) : log[k].kind = "elem"}

hasCommand(text) == matchAll(text) # <<>>

\* C1: after parseAndLoadComponents has finished, no text node under the body
\* still contains a use:Name command.
C1_NoCommandLeftAsText ==
    finished => \A k \in 1..Len(textNodesOf(body)) : ~hasCommand(textNodesOf(body)[k].value)

\* The commands of a text, read off the text itself: a command starts at a
\* "use:" that is followed by a non-whitespace token and is not inside the
\* name of a command that starts earlier in the same word
cmdStarts(text) ==
    {p \in 1..(Len(text) - 1) :
        /\ text[p] = UseTok
        /\ text[p + 1] # Space
        /\ ~\E q \in 1..(p - 1) : text[q] = UseTok /\ \A r \in (q + 1)..p : text[r] # Space}

\* The name runs to the last token before the next whitespace
cmdEnd(text, p) ==
    CHOOSE e \in (p + 1)..Len(text) :
        /\ \A r \in (p + 1)..e : text[r] # Space
        /\ e = Len(text) \/ text[e + 1] = Space

cmdNames(text) == {SubSeq(text, p + 1, cmdEnd(text, p)) : p \in cmdStarts(text)}

\* Left to right: the text before each command, then the nodes given by
\* content[name] for the command, then the trailing text
RECURSIVE piecesFrom(_, _, _)
piecesFrom(text, from, content) ==
    LET later == {p \in cmdStarts(text) : p >= from}
    IN  IF later = {}
        THEN IF from <= Len(text)
             THEN <<TextNode(SubSeq(text, from, Len(text)), "page")>> ELSE <<>>
        ELSE LET p == CHOOSE x \in later : \A y \in later : x <= y
                 e == cmdEnd(text, p)
             IN  (IF p > from THEN <<TextNode(SubSeq(text, from, p - 1), "page")>>
                              ELSE <<>>)
                     \o content[SubSeq(text, p + 1, e)]
                     \o piecesFrom(text, e + 1, content)

allLoaded(text) ==
    \A name \in cmdNames(text) : name \in DOMAIN cache /\ cache[name].tag = ""

\* C2 as stated: every command is given the fetched content of its module.
C2_FetchedContentInOrder ==
    \A k \in textEntries :
        allLoaded(log[k].text) =>
            LET fetched == [name \in cmdNames(log[k].text) |-> parseHTML(cache[name])]
            IN  log[k].fragment = piecesFrom(log[k].text, 1, fetched)

\* C2 amended: in the public loader the fetched content first has its
\* {{TITLE}} placeholders resolved from the parent element's data-title.
C2_ResolvedContentInOrder ==
    \A k \in textEntries :
        allLoaded(log[k].text) =>
            LET given == [name \in cmdNames(log[k].text) |->
                             IF loader = "public" /\ truthy(cache[name])
                             THEN parseHTML(resolvePlaceholders(cache[name], log[k].data))
                             ELSE parseHTML(cache[name])]
            IN  log[k].fragment = piecesFrom(log[k].text, 1, given)

\* Two commands with different names in one text node, text between them,
\* both modules loaded, and a placeholder resolved from data-title
C2_Witness ==
    \E k \in textEntries :
        /\ Cardinality(cmdNames(log[k].text)) >= 2
        /\ allLoaded(log[k].text)
        /\ Len(log[k].fragment) >= 3
        /\ loader = "public"
        /\ log[k].data # Absent
        /\ \E name \in cmdNames(log[k].text) :
              \E j \in 1..Len(cache[name].text) : cache[name].text[j] = TitleTok

-----------------------------------------------------------------------------
(* Failed fetches *)

\* The children of the page that hold a text node with a command in it
commandChildren == {i \in 1..Len(page) : hasCollectedText(page[i])
                                            /\ hasCommand(collectedText(page[i]))}

pageTextLeft == {k \in 1..Len(textNodesOf(body)) : textNodesOf(body)[k].origin = "page"}

commandParts(k) == {j \in 1..Len(log[k].parts) : log[k].parts[j].cmd}

\* C3: in the assets loader parseAndLoadComponents never rejects, and when it
\* has finished every command of the page was processed: a command whose
\* module failed to load was given no node at all, a command whose module
\* loaded was given the nodes of its content, and no text of the page still
\* holds a command.
C3_FailedModuleIgnored ==
    loader = "assets" =>
        /\ ~escaped
        /\ finished =>
              /\ {log[k].child : k \in textEntries} = commandChildren
              /\ \A k \in textEntries : \A j \in commandParts(k) :
                    LET part == log[k].parts[j]
                    IN  /\ part.name \in DOMAIN cache
                        /\ part.nodes = IF cache[part.name] = Null
                                        THEN <<>>
                                        ELSE parseHTML(cache[part.name])
              /\ \A k \in pageTextLeft : ~hasCommand(textNodesOf(body)[k].value)

\* A page with a failed command and a loaded one, both processed
C3_Witness ==
    /\ loader = "assets"
    /\ finished
    /\ \E k, l \in textEntries : \E i \in commandParts(k), j \in commandParts(l) :
          /\ cache[log[k].parts[i].name] = Null
          /\ log[k].parts[i].nodes = <<>>
          /\ cache[log[l].parts[j].name] # Null
          /\ log[l].parts[j].nodes # <<>>

failed(h) == h.tag = "div"

\* C4: in the public loader, when parseAndLoadComponents has finished, every
\* text command and every element command of the page whose module failed to
\* load has the error placeholder of its component standing in the document.
C4_PlaceholderAtEveryCommand ==
    (loader = "public" /\ finished) =>
        /\ \A k \in textEntries : \A j \in commandParts(k) :
              LET part == log[k].parts[j]
              IN  failed(cache[part.name]) => part.nodes = parseHTML(cache[part.name])
        /\ \A i \in 1..Len(page) :
              (hasUseAttr(page[i]) /\ failed(lookup(cache, elementName(page[i].use)))) =>
                  \E k \in elemEntries :
                      /\ log[k].child = i
                      /\ log[k].shown = "node"
                      /\ log[k].fragment = parseHTML(cache[elementName(page[i].use)])

-----------------------------------------------------------------------------
(* Visibility of the body *)

\* C5: in the public loader, once parseAndLoadComponents is over the body
\* has opacity '1'.
C5_PublicBodyRevealed ==
    (loader = "public" /\ pc = "done") => opacity = "1"

\* C6: in the assets loader, once parseAndLoadComponents is over and the
\* animation frame of its finally block has run, the body has opacity '1'.
C6_AssetsBodyRevealed ==
    (loader = "assets" /\ pc = "done" /\ raf # "scheduled") => opacity = "1"

-----------------------------------------------------------------------------
(* Element commands *)

\* Every {{TITLE}} replaced by the characters of val
RECURSIVE literalTitle(_, _)
literalTitle(content, val) ==
    IF content = <<>> THEN <<>>
    ELSE (IF Head(content) = TitleTok THEN val ELSE <<Head(content)>>)
             \o literalTitle(Tail(content), val)

\* <div use:W data-title="V"></div> as written in the page
writtenCommands == {i \in 1..Len(page) : /\ hasUseAttr(page[i])
                                         /\ page[i].data # Absent
                                         /\ page[i].kids = <<>>}

\* C7: in the public loader the module requested for <div use:W data-title="V">
\* is the one named W as written, and when it loaded the element is replaced
\* by its content with every {{TITLE}} replaced by V.
C7_ElementNameAsWritten ==
    (loader = "public" /\ finished) =>
        \A i \in writtenCommands :
            /\ page[i].use \in DOMAIN cache
            /\ cache[page[i].use].tag = "" =>
                  \E k \in elemEntries :
                      /\ log[k].child = i
                      /\ log[k].fragment =
                             parseHTML(Html("", literalTitle(cache[page[i].use].text,
                                                             page[i].data)))

-----------------------------------------------------------------------------
(* The gallery *)

\* C8: in the public pages, once the component loader has finished without an
\* error and no fetch of gallery.json is outstanding or has failed, the cards
\* of a gallery written in the page have been injected.
C8_GalleryHydrated ==
    (/\ loader = "public"
     /\ finished
     /\ containerIn(page, TRUE)
     /\ gPending = 0
     /\ gErrors = 0) => hydrations >= 1

\* C9: the cards are rendered at most once and at most one set of
\* auto-scroll listeners is attached.
C9_RenderedAtMostOnce == hydrations <= 1 /\ listenerSets <= 1

\* C10: a handler in which tick advanced scrollLeft ends with the pointer
\* released and auto-scroll not paused, whatever events came before.
C10_NoAdvanceWhileHeldOrPaused == ticked => (~isPaused /\ ~isPointerDown)

\* The resume timeout fired while the pointer was held, after the track had
\* been scrolled: auto-scroll stayed paused and nothing advanced
C10_Witness ==
    /\ isPointerDown
    /\ isPaused
    /\ resumeTimer # 0
    /\ resumeTimer \notin timersPending
    /\ scrollLeft > 0
    /\ ~ticked

-----------------------------------------------------------------------------
(* main.js *)

\* C11: while the pointer is over the viewport or the focus is inside it, no
\* animation frame is scheduled: rafId is null.
C11_NoFrameWhileHoverOrFocus == (hovering \/ focusInside) => mainRafId = 0

-----------------------------------------------------------------------------
(* Requests *)

\* The names the commands of the page carry: the names of the text commands,
\* and in the public loader the names of the use: attributes as the DOM gives them
namedOnPage ==
    UNION {cmdNames(collectedText(page[i])) : i \in {j \in 1..Len(page) : hasCollectedText(page[j])}}
        \cup (IF loader = "public"
               THEN {elementName(page[i].use) : i \in {j \in 1..Len(page) : hasUseAttr(page[j])}}
               ELSE {})

\* The nodes a command is given from the cache entry of its module
fromCache(name, data) ==
    IF name \notin DOMAIN cache \/ ~truthy(cache[name]) THEN <<>>
    ELSE IF loader = "public" THEN parseHTML(resolvePlaceholders(cache[name], data))
    ELSE parseHTML(cache[name])

\* The commands that were expanded and name the module
commandsNaming(name) ==
    Cardinality({kj \in (1..Len(log)) \X (1..MaxTextLen) :
                    /\ log[kj[1]].kind = "text"
                    /\ kj[2] \in commandParts(kj[1])
                    /\ log[kj[1]].parts[kj[2]].name = name})
      + Cardinality({k \in elemEntries : log[k].name = name})

\* C12: once the fetches have started, exactly one fetch was started for each
\* name the commands of the page carry and none for any other name, the count
\* never grows when a fetch fails, and when the run has finished every
\* expanded command holds the nodes of the one cache entry of its module.
C12_EachNameRequestedOnce ==
    /\ pc = "init" => requests = <<>>
    /\ (pc # "init" /\ ~noCommands(page, loader)) =>
          /\ DOMAIN requests = namedOnPage
          /\ DOMAIN cache = namedOnPage
          /\ \A name \in DOMAIN requests : requests[name] = 1
    /\ finished =>
          /\ \A k \in textEntries : \A j \in commandParts(k) :
                log[k].parts[j].nodes = fromCache(log[k].parts[j].name, log[k].data)
          /\ \A k \in elemEntries :
                log[k].fragment = fromCache(log[k].name, log[k].data)

\* A finished run in which two commands name one module whose fetch failed
C12_Witness ==
    /\ finished
    /\ \E name \in DOMAIN requests :
          /\ commandsNaming(name) >= 2
          /\ requests[name] = 1
          /\ cache[name] = Null \/ failed(cache[name])

-----------------------------------------------------------------------------
(* componentsReady *)

\* Every collected command was processed by its loop
allProcessed ==
    /\ {log[k].child : k \in textEntries} = commandChildren
    /\ \A i \in 1..Len(page) :
          (hasUseAttr(page[i]) /\ truthy(lookup(cache, elementName(page[i].use)))) =>
              \E k \in elemEntries : log[k].child = i

\* C13: when a run of the public loader is over, componentsReady was
\* dispatched exactly once and every collected command had been processed,
\* unless a critical error aborted the expansion, and then it was not
\* dispatched at all.
C13_ReadyOncePerRun ==
    (loader = "public" /\ pc = "done") =>
        IF critical THEN readyEvents = 0
        ELSE readyEvents = 1 /\ allProcessed

-----------------------------------------------------------------------------
(* Failed gallery resources *)

\* A gallery listener resumed from its await in this step
listenerResumed == gPending' < gPending \/ (aPc = "awaiting" /\ aPc' = "done")

\* C14: a step in which a gallery listener resumes with resources that failed
\* to load (a response not ok, a rejected fetch, a rejected JSON parse) logs
\* one error and leaves the cards, the hydration count, the placeholders,
\* the gallery-initialized mark and the auto-scroll listeners as they were,
\* and no exception leaves the listener.
C14_FailureOnlyLogged ==
    [][(listenerResumed /\ gOutcome' # "ok") =>
          /\ gErrors' = gErrors + 1
          /\ cards' = cards
          /\ hydrations' = hydrations
          /\ placeholders' = placeholders
          /\ gInitialized' = gInitialized
          /\ listenerSets' = listenerSets
          /\ looped' = looped
          /\ gEscaped' = FALSE]_vars

\* A listener resumed last with failed resources on a page it could have
\* hydrated: nothing was rendered and the placeholders are still there
C14_Witness ==
    /\ gOutcome \in {"notok", "reject", "badjson"}
    /\ hasTrack /\ hasTemplate
    /\ gErrors >= 1
    /\ cards = 0
    /\ ~gInitialized
    /\ gPending = 0
    /\ galleryScript = "placeholder" => (placeholders > 0 /\ aPc = "done")
    /\ galleryScript # "placeholder" => readyEvents >= 1

====
